---- MODULE Spec2Model ----
(***************************************************************************)
(* crony-researcher: bounded Levenshtein distance (src/src/distance.rs)    *)
(* and the trigram index with its two searches (src/src/index.rs).         *)
(*                                                                         *)
(* Characters are Unicode code points restricted to ASCII; a string is a   *)
(* sequence of code points.  Rust's 0-based vectors are read and written   *)
(* through At and Set.  usize is 64 bits wide: every number of the model   *)
(* is far below 2^64, so no addition wraps within the bounds.              *)
(***************************************************************************)
EXTENDS Integers, Sequences, FiniteSets, TLC

\* ------------------------------------------------------------------ bounds
\* longest character sequence handed to levenshtein_distance_raw directly
MaxLen == 3
\* largest max_distance of a call
MaxK == 2
\* records handed to bulk_add over the life of a builder
MaxRecords == 2
\* record ids are 1..MaxId
MaxId == 2
\* largest max_distance of a search
MaxDistance == 2
\* longest text handed to normalize
MaxNormLen == 4
\* longest text handed to tokenize
MaxTokLen == 8

VARIABLES
    cache,      \* bufs.cache of the caller-owned DistanceBuffers
    lev_a,      \* arguments of the last levenshtein_distance_raw call
    lev_b,
    lev_k,
    lev_ret,    \* its return value
    lev_peak,   \* the largest values it wrote to bufs.cache (see NoPeak)
    lev_pc,     \* "idle": no call pending; "returned": lev_ret holds a result
    phase,      \* "none": no builder; "building": IndexBuilder; "built": Indexer
    min_trigram_match_ratio,  \* numerator of the ratio over RatioDen
    index,      \* trigram -> posting list (sequence of ids)
    storage,    \* id -> PreparedText
    workers,    \* the add_single calls of the bulk_add in progress
    added,      \* every record handed to bulk_add so far, in batch order
    query,      \* the last query: [mode, text, id, max_distance]
    results,    \* the list the last query returned
    cleaned_buf,   \* the caller-owned buffers of normalize
    sorted_buf,
    token_ranges,
    norm_s,     \* argument of the last normalize call
    norm_prev,  \* the call before it: [called, s, sorted_buf]
    norm_pc,    \* "idle": no call pending; "returned": the buffers hold a result
    tok_text,   \* argument of the last tokenize call
    tok_ret,    \* its return value
    tok_pc      \* "idle": no call pending; "returned": tok_ret holds a result

levVars == <<cache, lev_a, lev_b, lev_k, lev_ret, lev_peak, lev_pc>>
builderVars == <<phase, min_trigram_match_ratio, index, storage, workers, added>>
queryVars == <<query, results>>
normVars == <<cleaned_buf, sorted_buf, token_ranges, norm_s, norm_prev, norm_pc>>
tokVars == <<tok_text, tok_ret, tok_pc>>
textVars == <<normVars, tokVars>>
vars == <<levVars, builderVars, queryVars, textVars>>

\* ----------------------------------------------------------------- helpers
Min(x, y) == IF x < y THEN x ELSE y
Max(x, y) == IF x > y THEN x ELSE y
abs_diff(x, y) == IF x > y THEN x - y ELSE y - x
At(v, j) == v[j + 1]
Set(v, j, x) == [v EXCEPT ![j + 1] = x]

\* the two letters used for directly supplied character sequences
LevChars == {97, 98}

SeqsUpTo(S, n) == UNION {[1..l -> S] : l \in 0..n}

\* ------------------------------------------------- levenshtein_distance_raw
\* first column of the band of a row
BandStart(row, max_distance) ==
    IF row > max_distance THEN row - max_distance ELSE 1

\* the band ends one column early
BandEndShort(m, row, max_distance) == Min(m, row + max_distance - 1)

\* last column of the band of a row
BandEnd(m, row, max_distance) == Min(m, row + max_distance)

\* the row filled with the indices themselves
InitRowUncapped(m, max_val) == [x \in 1..(m + 1) |-> x - 1]

\* bufs.cache.clear(); bufs.cache.extend((0..=m).map(|x| min(x, max_val)))
InitRow(m, max_val) == [x \in 1..(m + 1) |-> Min(x - 1, max_val)]

\* the largest value of a row
RowMax(row) == CHOOSE x \in {row[n] : n \in 1..Len(row)} :
                   \A n \in 1..Len(row) : row[n] <= x

\* nothing written to the row buffer: peak.edge is the largest value written
\* by the initialization and the band-edge writes, peak.cell the largest
\* written by a cell update
NoPeak == [edge |-> 0, cell |-> 0]

\* for j in (start - 1)..end { ... }: returns the row buffer, the smallest
\* value written in the row and the largest values written so far
RECURSIVE ColLoop(_, _, _, _, _, _, _, _)
ColLoop(j, end, s_char, target, buf, diagonal, min_in_row, peak) ==
    IF j >= end
    THEN [cache |-> buf, min_in_row |-> min_in_row, peak |-> peak]
    ELSE LET t_char == At(target, j)
             next_diagonal == At(buf, j + 1)
             cost == IF s_char = t_char THEN 0 ELSE 1
             res == Min(Min(At(buf, j + 1) + 1, At(buf, j) + 1), diagonal + cost)
         IN  ColLoop(j + 1, end, s_char, target, Set(buf, j + 1, res),
                     next_diagonal,
                     IF res < min_in_row THEN res ELSE min_in_row,
                     [peak EXCEPT !.cell = Max(@, res)])

\* for (i, &s_char) in source.iter().enumerate() { ... } and the final test
RECURSIVE RowLoop(_, _, _, _, _, _)
RowLoop(i, source, target, max_distance, buf, peak) ==
    LET m == Len(target)
        max_val == max_distance + 1
    IN  IF i >= Len(source)
        THEN [cache |-> buf, peak |-> peak,
              ret |-> IF At(buf, m) <= max_distance THEN At(buf, m) ELSE max_val]
        ELSE LET row == i + 1
                 start == BandStart(row, max_distance)
                 end == BandEnd(m, row, max_distance)
                 diagonal == At(buf, start - 1)
                 edge == IF start = 1 THEN row ELSE max_val
                 buf1 == IF start = 1
                         THEN Set(buf, 0, row)
                         ELSE Set(buf, start - 1, max_val)
                 r == ColLoop(start - 1, end, At(source, i), target, buf1,
                              diagonal, max_val,
                              [peak EXCEPT !.edge = Max(@, edge)])
             IN  IF r.min_in_row > max_distance
                 THEN [cache |-> r.cache, peak |-> r.peak, ret |-> max_val]
                 ELSE RowLoop(i + 1, source, target, max_distance, r.cache, r.peak)

\* the function with the two empty-sequence returns ahead of the
\* length-difference test
levenshtein_distance_raw_EmptyFirst(a, b, max_distance, buf) ==
    LET a_len == Len(a)
        b_len == Len(b)
    IN  IF a_len = 0
        THEN [ret |-> b_len, cache |-> buf, peak |-> NoPeak]
        ELSE IF b_len = 0
        THEN [ret |-> a_len, cache |-> buf, peak |-> NoPeak]
        ELSE IF abs_diff(a_len, b_len) > max_distance
        THEN [ret |-> max_distance + 1, cache |-> buf, peak |-> NoPeak]
        ELSE RowLoop(0, IF a_len > b_len THEN a ELSE b,
                     IF a_len > b_len THEN b ELSE a, max_distance,
                     InitRow(Min(a_len, b_len), max_distance + 1),
                     [edge |-> RowMax(InitRow(Min(a_len, b_len), max_distance + 1)),
                      cell |-> 0])

\* the whole function: [ret, cache after the call, largest values written]
levenshtein_distance_raw(a, b, max_distance, buf) ==
    LET a_len == Len(a)
        b_len == Len(b)
    IN  IF abs_diff(a_len, b_len) > max_distance
        THEN [ret |-> max_distance + 1, cache |-> buf, peak |-> NoPeak]
        ELSE IF a_len = 0
        THEN [ret |-> b_len, cache |-> buf, peak |-> NoPeak]
        ELSE IF b_len = 0
        THEN [ret |-> a_len, cache |-> buf, peak |-> NoPeak]
        ELSE LET target == IF a_len > b_len THEN b ELSE a
                 source == IF a_len > b_len THEN a ELSE b
                 m == Len(target)
                 max_val == max_distance + 1
                 row0 == InitRow(m, max_val)
             IN  RowLoop(0, source, target, max_distance, row0,
                         [edge |-> RowMax(row0), cell |-> 0])

\* ------------------------------------------- the Levenshtein edit distance
\* Wagner-Fischer over the whole matrix, no band and no cap: what
\* "the true Levenshtein edit distance" of two sequences is.
EditDistance(a, b) ==
    LET D[i \in 0..Len(a), j \in 0..Len(b)] ==
            IF i = 0 THEN j
            ELSE IF j = 0 THEN i
            ELSE Min(Min(D[i - 1, j] + 1, D[i, j - 1] + 1),
                     D[i - 1, j - 1] + (IF a[i] = b[j] THEN 0 ELSE 1))
    IN  D[Len(a), Len(b)]

\* ------------------------------------------------------------- characters
\* char::is_alphanumeric, char::is_whitespace and char::to_lowercase on the
\* ASCII range (digits, letters; tab..carriage return and space)
is_alphanumeric(c) == c \in (48..57) \cup (65..90) \cup (97..122)
is_whitespace(c) == c \in (9..13) \cup {32}
to_lowercase(c) == IF c \in 65..90 THEN <<c + 32>> ELSE <<c>>

\* Ord on [char; 3] and on str: lexicographic, a proper prefix first
RECURSIVE LexLess(_, _)
LexLess(s, t) ==
    IF t = <<>> THEN FALSE
    ELSE IF s = <<>> THEN TRUE
    ELSE IF Head(s) /= Head(t) THEN Head(s) < Head(t)
    ELSE LexLess(Tail(s), Tail(t))

\* slice::sort_unstable_by_key on a sequence of [key, val] with keys ordered
\* by LexLess: insertion of every element after the elements whose key is
\* not greater.  Equal keys come with equal values wherever this is used,
\* so stability does not show.
\* the elements left in the order they came in
keep_order_by_key(s) == [n \in 1..Len(s) |-> s[n].val]

sort_unstable_by_key(s) ==
    LET InsertInto(x, t) ==
            LET p == Cardinality({n \in 1..Len(t) : ~LexLess(x.key, t[n].key)})
            IN  SubSeq(t, 1, p) \o <<x>> \o SubSeq(t, p + 1, Len(t))
        F[n \in 0..Len(s)] == IF n = 0 THEN <<>> ELSE InsertInto(s[n], F[n - 1])
    IN  [n \in 1..Len(s) |-> F[Len(s)][n].val]

\* slice::sort_unstable on trigrams: every element is its own key
sort_unstable(s) ==
    sort_unstable_by_key([n \in 1..Len(s) |-> [key |-> s[n], val |-> s[n]]])

\* Vec::dedup: drops every element equal to the one before it
RECURSIVE dedup(_)
dedup(s) ==
    IF Len(s) <= 1 THEN s
    ELSE IF s[1] = s[2] THEN dedup(Tail(s))
    ELSE <<s[1]>> \o dedup(Tail(s))

\* ----------------------------------------------------------------- tokenize
\* chars_processed >= 10_000 ends the loop
MaxProcessed == 10000

\* text.chars().flat_map(|c| c.to_lowercase())
RECURSIVE LowerAll(_)
LowerAll(text) ==
    IF text = <<>> THEN <<>> ELSE to_lowercase(Head(text)) \o LowerAll(Tail(text))

\* the loop with current_word_len left alone at a non-alphanumeric character
RECURSIVE TokenizeLoopNoReset(_, _, _, _, _)
TokenizeLoopNoReset(cs, window, current_word_len, chars_processed, trigrams) ==
    IF cs = <<>> \/ chars_processed >= MaxProcessed THEN trigrams
    ELSE LET c == Head(cs)
         IN  IF is_alphanumeric(c)
             THEN LET w == <<window[2], window[3], c>>
                  IN  TokenizeLoopNoReset(Tail(cs), w, current_word_len + 1,
                                          chars_processed + 1,
                                          IF current_word_len + 1 >= 3
                                          THEN Append(trigrams, w) ELSE trigrams)
             ELSE TokenizeLoopNoReset(Tail(cs), window, current_word_len,
                                      chars_processed + 1, trigrams)

\* for c in text.chars().flat_map(..) { ... }: the trigrams pushed
RECURSIVE TokenizeLoop(_, _, _, _, _)
TokenizeLoop(cs, window, current_word_len, chars_processed, trigrams) ==
    IF cs = <<>> \/ chars_processed >= MaxProcessed THEN trigrams
    ELSE LET c == Head(cs)
         IN  IF is_alphanumeric(c)
             THEN LET w == <<window[2], window[3], c>>
                  IN  TokenizeLoop(Tail(cs), w, current_word_len + 1,
                                   chars_processed + 1,
                                   IF current_word_len + 1 >= 3
                                   THEN Append(trigrams, w) ELSE trigrams)
             ELSE TokenizeLoop(Tail(cs), window, 0, chars_processed + 1, trigrams)

tokenize(text) == TokenizeLoop(LowerAll(text), <<0, 0, 0>>, 0, 0, <<>>)

\* ---------------------------------------------------------------- normalize
\* first loop: keep alphanumeric and whitespace characters, lowercased
RECURSIVE Clean(_)
Clean(s) ==
    IF s = <<>> THEN <<>>
    ELSE IF is_alphanumeric(Head(s)) \/ is_whitespace(Head(s))
         THEN to_lowercase(Head(s)) \o Clean(Tail(s))
         ELSE Clean(Tail(s))

\* second loop: the (start, end) range of every word of cleaned_buf; i is
\* the 0-based index of the next character
RECURSIVE TokenRanges(_, _, _, _, _)
TokenRanges(cleaned, i, start, in_word, ranges) ==
    IF i >= Len(cleaned)
    THEN IF in_word THEN Append(ranges, <<start, Len(cleaned)>>) ELSE ranges
    ELSE IF is_whitespace(At(cleaned, i))
         THEN IF in_word
              THEN TokenRanges(cleaned, i + 1, start, FALSE, Append(ranges, <<start, i>>))
              ELSE TokenRanges(cleaned, i + 1, start, FALSE, ranges)
         ELSE IF ~in_word
              THEN TokenRanges(cleaned, i + 1, i, TRUE, ranges)
              ELSE TokenRanges(cleaned, i + 1, start, TRUE, ranges)

\* &cleaned_buf[s..e]
Slice(buf, s, e) == SubSeq(buf, s + 1, e)

\* third loop: the words in range order, a space before all but the first
RECURSIVE JoinRanges(_, _, _)
JoinRanges(cleaned, ranges, i) ==
    IF i > Len(ranges) THEN <<>>
    ELSE (IF i > 1 THEN <<32>> ELSE <<>>)
         \o Slice(cleaned, ranges[i][1], ranges[i][2])
         \o JoinRanges(cleaned, ranges, i + 1)

\* String::clear, Vec::clear
clear(buf) == <<>>

\* the three buffers as normalize leaves them, from what they held before
normalize(s, cleaned_buf0, sorted_buf0, token_ranges0) ==
    LET cleaned == clear(cleaned_buf0) \o Clean(s)
        ranges == TokenRanges(cleaned, 0, 0, FALSE, clear(token_ranges0))
        sorted_ranges ==
            sort_unstable_by_key(
                [n \in 1..Len(ranges) |->
                    [key |-> Slice(cleaned, ranges[n][1], ranges[n][2]),
                     val |-> ranges[n]]])
    IN  [cleaned_buf |-> cleaned,
         token_ranges |-> sorted_ranges,
         sorted_buf |-> clear(sorted_buf0) \o JoinRanges(cleaned, sorted_ranges, 1)]

\* --------------------------------------------------------------- hash_chars
\* FxHasher is a library: a fold of the code points into one word.  The
\* word is kept HashMod wide, so that unequal sequences of equal length
\* collide, as they can in 64 bits.
HashSeed == 5
HashMod == 4

RECURSIVE HashFold(_, _)
HashFold(h, chars) ==
    IF chars = <<>> THEN h
    ELSE HashFold(((h + Head(chars)) * HashSeed) % HashMod, Tail(chars))

hash_chars(chars) == HashFold(0, chars)

\* ------------------------------------------------------------- IndexBuilder
\* the ratio is RatioNum / RatioDen; halves are exact in f64, and so are
\* their products with a small count
RatioDen == 2
\* match_ratio values handed to IndexBuilder::new: -0.5, 0.5 and 1.5
RatioNums == {-1, 1, 3}

\* f64::clamp(0.0, 1.0) on the numerator
clamp(num) == IF num < 0 THEN 0 ELSE IF num > RatioDen THEN RatioDen ELSE num

\* the record texts and query texts: "aaaa", "aaab", "baaa", "b aaa",
\* "Aaa, b", " ", "ab", "aabab"
Texts ==
    { <<97, 97, 97, 97>>, <<97, 97, 97, 98>>, <<98, 97, 97, 97>>,
      <<98, 32, 97, 97, 97>>, <<65, 97, 97, 44, 32, 98>>, <<32>>,
      <<97, 98>>, <<97, 97, 98, 97, 98>> }

RecordIds == 1..MaxId
Records == [id : RecordIds, text : Texts]

\* text.trim().is_empty()
IsBlank(text) == \A n \in 1..Len(text) : is_whitespace(text[n])

\* tokens after sort_unstable and dedup
Trigrams(text) == dedup(sort_unstable(tokenize(text)))

\* the PreparedText add_single computes for a text
Prepare(text) ==
    LET normalized_vec == normalize(text, <<>>, <<>>, <<>>).sorted_buf
    IN  [original |-> text,
         normalized_vec |-> normalized_vec,
         normalized_len |-> Len(normalized_vec),
         normalized_hash |-> hash_chars(normalized_vec),
         trigrams |-> Trigrams(text)]

\* DashMap::insert: the value under the key is replaced
MapInsert(map, key, value) ==
    [x \in DOMAIN map \cup {key} |-> IF x = key THEN value ELSE map[x]]

\* the posting list of the token is replaced by one holding the id alone
PostingOverwrite(map, token, id) == MapInsert(map, token, <<id>>)

\* self.index.entry(token).or_insert_with(Vec::new).push(id)
PostingPush(map, token, id) ==
    MapInsert(map, token,
              Append(IF token \in DOMAIN map THEN map[token] ELSE <<>>, id))

\* bulk_add: one add_single per record, started together
BulkAdd(records) ==
    /\ phase = "building"
    /\ workers = <<>>
    /\ records /= <<>>
    /\ Len(added) + Len(records) <= MaxRecords
    /\ workers' = [n \in 1..Len(records) |->
                      [id |-> records[n].id, text |-> records[n].text,
                       pc |-> "start", tokens |-> <<>>]]
    /\ added' = added \o records
    /\ UNCHANGED <<phase, min_trigram_match_ratio, index, storage, levVars, queryVars, textVars>>

\* add_single up to and including self.storage.insert (the blank test,
\* tokenize, normalize and hash_chars touch nothing shared)
AddSingleInsert(n) ==
    /\ n \in 1..Len(workers)
    /\ workers[n].pc = "start"
    /\ IF IsBlank(workers[n].text)
       THEN /\ workers' = [workers EXCEPT ![n].pc = "done"]
            /\ UNCHANGED storage
       ELSE LET p == Prepare(workers[n].text)
            IN  /\ storage' = MapInsert(storage, workers[n].id, p)
                /\ workers' = [workers EXCEPT
                                 ![n].tokens = p.trigrams,
                                 ![n].pc = IF p.trigrams = <<>> THEN "done" ELSE "push"]
    /\ UNCHANGED <<phase, min_trigram_match_ratio, index, added, levVars, queryVars, textVars>>

\* one turn of `for token in tokens`
AddSinglePush(n) ==
    /\ n \in 1..Len(workers)
    /\ workers[n].pc = "push"
    /\ index' = PostingPush(index, Head(workers[n].tokens), workers[n].id)
    /\ workers' = [workers EXCEPT
                     ![n].tokens = Tail(@),
                     ![n].pc = IF Len(workers[n].tokens) = 1 THEN "done" ELSE "push"]
    /\ UNCHANGED <<phase, min_trigram_match_ratio, storage, added, levVars, queryVars, textVars>>

\* for_each returns once every add_single has returned
BulkAddReturn ==
    /\ workers /= <<>>
    /\ \A n \in 1..Len(workers) : workers[n].pc = "done"
    /\ workers' = <<>>
    /\ UNCHANGED <<phase, min_trigram_match_ratio, index, storage, added, levVars, queryVars, textVars>>

\* build(self): the builder is consumed, the maps are frozen
Build ==
    /\ phase = "building"
    /\ workers = <<>>
    /\ phase' = "built"
    /\ UNCHANGED <<min_trigram_match_ratio, index, storage, workers, added, levVars, queryVars, textVars>>

\* ------------------------------------------------------------------ Indexer
\* every arrangement of the elements of a sequence
Arrangements(s) ==
    {[n \in 1..Len(s) |-> s[f[n]]] :
        f \in {g \in [1..Len(s) -> 1..Len(s)] :
                  \A x, y \in 1..Len(s) : x /= y => g[x] /= g[y]}}

\* every order of the elements of a finite set
Orders(S) ==
    {f \in [1..Cardinality(S) -> S] :
        \A x, y \in 1..Cardinality(S) : x /= y => f[x] /= f[y]}

\* the list left in whatever order the candidates were visited
unsorted(rs) == Arrangements(rs)

\* results.sort_unstable_by_key(|r| r.distance): ascending distance, equal
\* distances in any order
sort_unstable_by_distance(rs) ==
    {t \in Arrangements(rs) :
        \A n \in 1..(Len(t) - 1) : t[n].distance <= t[n + 1].distance}

\* the floor of the product in place of its ceiling
min_matches_floor(token_count, ratio) ==
    Max(1, (token_count * ratio) \div RatioDen)

\* max(1, (tokens.len() as f64 * self.min_trigram_match_ratio).ceil() as usize)
min_matches(token_count, ratio) ==
    Max(1, (token_count * ratio + RatioDen - 1) \div RatioDen)

\* search_by_id counts the ids from the query id on, itself included
FromQueryId(id, query_id) == id >= query_id

\* search_by_id counts only `id > query_id`
AfterQueryId(id, query_id) == id > query_id

\* the candidates map after the two nested loops: every id of a posting list
\* of a query token (for search_by_id: that comes after the query id), with
\* the number of times the loops met it
Candidates(tokens, query_id, by_id) ==
    LET hits == {n \in 1..Len(tokens) : tokens[n] \in DOMAIN index}
        Met(id) == {<<n, p>> \in hits \X (1..Len(added)) :
                       /\ p <= Len(index[tokens[n]])
                       /\ index[tokens[n]][p] = id}
        listed == UNION {{index[tokens[n]][p] : p \in 1..Len(index[tokens[n]])} :
                         n \in hits}
    IN  [id \in {x \in listed : by_id => AfterQueryId(x, query_id)} |->
            Cardinality(Met(id))]

\* the pre-filter also drops a length difference equal to max_distance
LengthTooFarOrEqual(q_len, normalized_len, max_distance) ==
    abs_diff(q_len, normalized_len) >= max_distance

\* q_len.abs_diff(prepared.normalized_len) > max_distance
LengthTooFar(q_len, normalized_len, max_distance) ==
    abs_diff(q_len, normalized_len) > max_distance

\* the short-circuit trusts the length and the hash
SameHash(q_chars, q_len, q_hash, prepared) ==
    q_len = prepared.normalized_len /\ q_hash = prepared.normalized_hash

\* length, hash and then the characters themselves agree
SameText(q_chars, q_len, q_hash, prepared) ==
    /\ q_len = prepared.normalized_len
    /\ q_hash = prepared.normalized_hash
    /\ q_chars = prepared.normalized_vec

\* `for (id, matches) in candidates { ... }` in the order the map yields
\* its entries; buf is bufs.cache, reused from one candidate to the next
RECURSIVE VerifyLoop(_, _, _, _, _, _, _, _, _, _)
VerifyLoop(order, n, candidates, min, q_chars, q_len, q_hash, max_distance, buf, rs) ==
    IF n > Len(order) THEN rs
    ELSE LET id == order[n]
             Skip == VerifyLoop(order, n + 1, candidates, min, q_chars, q_len,
                                q_hash, max_distance, buf, rs)
         IN  IF ~(candidates[id] >= min /\ id \in DOMAIN storage) THEN Skip
             ELSE LET prepared == storage[id]
                  IN  IF LengthTooFar(q_len, prepared.normalized_len, max_distance)
                      THEN Skip
                      ELSE IF SameText(q_chars, q_len, q_hash, prepared)
                      THEN VerifyLoop(order, n + 1, candidates, min, q_chars,
                                      q_len, q_hash, max_distance, buf,
                                      Append(rs, [id |-> id, distance |-> 0]))
                      ELSE LET r == levenshtein_distance_raw(
                                        q_chars, prepared.normalized_vec,
                                        max_distance, buf)
                           IN  VerifyLoop(order, n + 1, candidates, min, q_chars,
                                          q_len, q_hash, max_distance, r.cache,
                                          IF r.ret <= max_distance
                                          THEN Append(rs, [id |-> id, distance |-> r.ret])
                                          ELSE rs)

\* from the candidates map to the returned list: every list the function
\* can return (the map's iteration order and the order of equal distances
\* are not fixed)
Ranked(candidates, token_count, q_chars, q_len, q_hash, max_distance) ==
    LET min == min_matches(token_count, min_trigram_match_ratio)
    IN  UNION {sort_unstable_by_distance(
                   VerifyLoop(order, 1, candidates, min, q_chars, q_len, q_hash,
                              max_distance, <<>>, <<>>)) :
               order \in Orders(DOMAIN candidates)}

\* Indexer::search: the lists it can return
search(text, max_distance) ==
    LET q_chars == normalize(text, <<>>, <<>>, <<>>).sorted_buf
        tokens == tokenize(text)
    IN  IF tokens = <<>> THEN {<<>>}
        ELSE LET toks == dedup(sort_unstable(tokens))
             IN  Ranked(Candidates(toks, 0, FALSE), Len(toks), q_chars,
                        Len(q_chars), hash_chars(q_chars), max_distance)

\* Indexer::search_by_id: the lists it can return
search_by_id(query_id, max_distance) ==
    IF query_id \notin DOMAIN storage THEN {<<>>}
    ELSE LET q == storage[query_id]
         IN  IF q.trigrams = <<>> THEN {<<>>}
             ELSE Ranked(Candidates(q.trigrams, query_id, TRUE),
                         Len(q.trigrams), q.normalized_vec, q.normalized_len,
                         q.normalized_hash, max_distance)

NoQuery == [mode |-> "none", text |-> <<>>, id |-> 0, max_distance |-> 0]

Search(text, max_distance) ==
    /\ phase = "built"
    /\ query.mode = "none"
    /\ results' \in search(text, max_distance)
    /\ query' = [mode |-> "search", text |-> text, id |-> 0,
                 max_distance |-> max_distance]
    /\ UNCHANGED <<builderVars, levVars, textVars>>

SearchById(query_id, max_distance) ==
    /\ phase = "built"
    /\ query.mode = "none"
    /\ results' \in search_by_id(query_id, max_distance)
    /\ query' = [mode |-> "search_by_id", text |-> <<>>, id |-> query_id,
                 max_distance |-> max_distance]
    /\ UNCHANGED <<builderVars, levVars, textVars>>

\* the caller takes the list
TakeResults ==
    /\ query.mode /= "none"
    /\ query' = NoQuery
    /\ results' = <<>>
    /\ UNCHANGED <<builderVars, levVars, textVars>>

\* ----------------------------------------------------- distance-engine runs
\* DistanceBuffers::new(): an empty cache, nothing called yet
LevIdle ==
    /\ cache = <<>>
    /\ lev_a = <<>>
    /\ lev_b = <<>>
    /\ lev_k = 0
    /\ lev_ret = 0
    /\ lev_peak = NoPeak
    /\ lev_pc = "idle"

\* no builder, no index, no query
NoIndex ==
    /\ index = <<>>
    /\ storage = <<>>
    /\ workers = <<>>
    /\ added = <<>>
    /\ query = NoQuery
    /\ results = <<>>

\* no normalize call and no tokenize call yet: String::new(), Vec::new()
NoNormalize == [called |-> FALSE, s |-> <<>>, sorted_buf |-> <<>>]

TextIdle ==
    /\ cleaned_buf = <<>>
    /\ sorted_buf = <<>>
    /\ token_ranges = <<>>
    /\ norm_s = <<>>
    /\ norm_prev = NoNormalize
    /\ norm_pc = "idle"
    /\ tok_text = <<>>
    /\ tok_ret = <<>>
    /\ tok_pc = "idle"

\* the distance engine on its own
InitLev ==
    /\ LevIdle
    /\ NoIndex
    /\ TextIdle
    /\ phase = "none"
    /\ min_trigram_match_ratio = 0

\* IndexBuilder::new(match_ratio): two empty maps and the clamped ratio
Init ==
    /\ LevIdle
    /\ NoIndex
    /\ TextIdle
    /\ phase = "building"
    /\ min_trigram_match_ratio \in {clamp(num) : num \in RatioNums}

\* one call on the caller's buffers, which keep what the call left in them
CallLevenshtein(a, b, k) ==
    LET r == levenshtein_distance_raw(a, b, k, cache)
    IN  /\ lev_pc = "idle"
        /\ cache' = r.cache
        /\ lev_a' = a
        /\ lev_b' = b
        /\ lev_k' = k
        /\ lev_ret' = r.ret
        /\ lev_peak' = r.peak
        /\ lev_pc' = "returned"
        /\ UNCHANGED <<builderVars, queryVars, textVars>>

\* the caller takes the result; the buffers stay as the call left them
TakeResult ==
    /\ lev_pc = "returned"
    /\ lev_a' = <<>>
    /\ lev_b' = <<>>
    /\ lev_k' = 0
    /\ lev_ret' = 0
    /\ lev_peak' = NoPeak
    /\ lev_pc' = "idle"
    /\ UNCHANGED <<cache, builderVars, queryVars, textVars>>

NextLev ==
    \/ \E a \in SeqsUpTo(LevChars, MaxLen), b \in SeqsUpTo(LevChars, MaxLen), k \in 0..MaxK :
            CallLevenshtein(a, b, k)
    \/ TakeResult

SpecLev == InitLev /\ [][NextLev]_vars

\* the index from construction to queries
Next ==
    \/ \E records \in UNION {[1..l -> Records] : l \in 1..MaxRecords} : BulkAdd(records)
    \/ \E n \in 1..MaxRecords : AddSingleInsert(n)
    \/ \E n \in 1..MaxRecords : AddSinglePush(n)
    \/ BulkAddReturn
    \/ Build
    \/ \E text \in Texts, k \in 0..MaxDistance : Search(text, k)
    \/ \E id \in RecordIds, k \in 0..MaxDistance : SearchById(id, k)
    \/ TakeResults

Spec == Init /\ [][Next]_vars

\* ------------------------------------------------------- normalize on its own
\* 'a', 'b', 'A', ' ', ','
NormChars == {97, 98, 65, 32, 44}

\* one call on the caller's three buffers, which hold what the call before
\* left in them
CallNormalize(s) ==
    LET r == normalize(s, cleaned_buf, sorted_buf, token_ranges)
    IN  /\ norm_pc = "idle"
        /\ cleaned_buf' = r.cleaned_buf
        /\ sorted_buf' = r.sorted_buf
        /\ token_ranges' = r.token_ranges
        /\ norm_s' = s
        /\ norm_pc' = "returned"
        /\ UNCHANGED <<norm_prev, tokVars, levVars, builderVars, queryVars>>

\* the caller reads sorted_buf; the buffers stay as the call left them
TakeNormalized ==
    /\ norm_pc = "returned"
    /\ norm_prev' = [called |-> TRUE, s |-> norm_s, sorted_buf |-> sorted_buf]
    /\ norm_s' = <<>>
    /\ norm_pc' = "idle"
    /\ UNCHANGED <<cleaned_buf, sorted_buf, token_ranges, tokVars, levVars,
                   builderVars, queryVars>>

NextNormalize ==
    \/ /\ norm_pc = "idle"
       /\ \E s \in SeqsUpTo(NormChars, MaxNormLen) : CallNormalize(s)
    \/ TakeNormalized

SpecNormalize == InitLev /\ [][NextNormalize]_vars

\* -------------------------------------------------------- tokenize on its own
\* 'a', 'B', ' '
TokChars == {97, 66, 32}

CallTokenize(text) ==
    /\ tok_pc = "idle"
    /\ tok_text' = text
    /\ tok_ret' = tokenize(text)
    /\ tok_pc' = "returned"
    /\ UNCHANGED <<normVars, levVars, builderVars, queryVars>>

\* the caller takes the trigrams
TakeTrigrams ==
    /\ tok_pc = "returned"
    /\ tok_text' = <<>>
    /\ tok_ret' = <<>>
    /\ tok_pc' = "idle"
    /\ UNCHANGED <<normVars, levVars, builderVars, queryVars>>

NextTokenize ==
    \/ /\ tok_pc = "idle"
       /\ \E text \in SeqsUpTo(TokChars, MaxTokLen) : CallTokenize(text)
    \/ TakeTrigrams

SpecTokenize == InitLev /\ [][NextTokenize]_vars

\* C1: every call returns min(L(a, b), k + 1), L the true edit distance,
\* whatever an earlier call left in the reused row buffer.
C1_BoundedCorrect ==
    lev_pc = "returned" => lev_ret = Min(EditDistance(lev_a, lev_b), lev_k + 1)

\* a call that runs the banded rows (the band leaves part of the matrix
\* out) and returns a true distance within the bound
C1_Witness ==
    /\ lev_pc = "returned"
    /\ Len(lev_a) = 3
    /\ Len(lev_b) = 2
    /\ lev_k = 1
    /\ lev_ret = 1
    /\ Len(cache) = 3

\* ------------------------------------------------------------- properties
\* the set of trigrams of a text, and its normalized form
TrigramSet(text) == {tokenize(text)[n] : n \in 1..Len(tokenize(text))}
Normalized(text) == normalize(text, <<>>, <<>>, <<>>).sorted_buf

\* the least integer not below count * ratio
Threshold(count) ==
    LET c == CHOOSE x \in 0..count :
                 /\ x * RatioDen >= count * min_trigram_match_ratio
                 /\ (x - 1) * RatioDen < count * min_trigram_match_ratio
    IN  IF c < 1 THEN 1 ELSE c

\* no two records handed to bulk_add so far share an id
DistinctIds == \A m, n \in 1..Len(added) : m /= n => added[m].id /= added[n].id

ResultIds == {results[n].id : n \in 1..Len(results)}

\* the non-blank records handed to bulk_add, by position
Kept == {n \in 1..Len(added) : ~IsBlank(added[n].text)}

\* C2: after a build from pairwise distinct ids, search(query, k) returns
\* exactly the stored ids that share at least max(1, ceil(|query trigrams| *
\* ratio)) trigrams with the query and whose normalized text is within
\* edit distance k of the normalized query, each once and each with its
\* true distance.
C2_SearchExact ==
    (query.mode = "search" /\ DistinctIds) =>
        LET q == Normalized(query.text)
            need == Threshold(Cardinality(TrigramSet(query.text)))
            wanted == {id \in DOMAIN storage :
                          /\ Cardinality(TrigramSet(storage[id].original)
                                         \cap TrigramSet(query.text)) >= need
                          /\ EditDistance(Normalized(storage[id].original), q)
                                 <= query.max_distance}
        IN  /\ ResultIds = wanted
            /\ Len(results) = Cardinality(wanted)
            /\ \A n \in 1..Len(results) :
                   results[n].distance =
                       EditDistance(Normalized(storage[results[n].id].original), q)

\* a search that returns one of two stored records, two edits away
C2_Witness ==
    /\ query.mode = "search"
    /\ DistinctIds
    /\ Cardinality(DOMAIN storage) = 2
    /\ Len(results) = 1
    /\ results[1].distance = 2

\* C3: for stored ids x < y, if the normalized texts of x and y are within
\* edit distance k and the trigrams of x that y shares meet x's threshold,
\* then y is in search_by_id(x, k).
C3_TwinFound ==
    query.mode = "search_by_id" =>
        \A y \in DOMAIN storage :
            LET x == query.id
            IN  ( /\ x \in DOMAIN storage
                  /\ x < y
                  /\ EditDistance(Normalized(storage[x].original),
                                  Normalized(storage[y].original)) <= query.max_distance
                  /\ Cardinality(TrigramSet(storage[x].original)
                                 \cap TrigramSet(storage[y].original))
                        >= Threshold(Cardinality(TrigramSet(storage[x].original))) )
                => y \in ResultIds

\* search_by_id(1, k) finds record 2 at an edit distance equal to the
\* difference of the lengths
C3_Witness ==
    /\ query.mode = "search_by_id"
    /\ query.id = 1
    /\ query.max_distance = 1
    /\ 1 \in DOMAIN storage
    /\ results = <<[id |-> 2, distance |-> 1]>>
    /\ abs_diff(storage[1].normalized_len, storage[2].normalized_len) = 1

\* C4: search_by_id(x, k) returns no id <= x, whether x is stored or not.
C4_OnlyLargerIds ==
    query.mode = "search_by_id" =>
        \A n \in 1..Len(results) : results[n].id > query.id

\* search_by_id(x, k) for a stored x that has trigrams and a twin
C4_Witness ==
    /\ query.mode = "search_by_id"
    /\ query.id \in DOMAIN storage
    /\ storage[query.id].trigrams /= <<>>
    /\ results /= <<>>

\* C5 as stated: once bulk_add has returned, an id that two or more
\* non-blank records carry holds the PreparedText of the last of them in
\* batch order.
C5_LaterInBatchWins ==
    workers = <<>> =>
        \A id \in RecordIds :
            LET with == {n \in Kept : added[n].id = id}
            IN  Cardinality(with) >= 2 =>
                    storage[id] = Prepare(added[CHOOSE n \in with :
                                                    \A m \in with : m <= n].text)

\* C6: a batch of pairwise distinct ids ends, after build(), in the record
\* store and the posting lists (up to the order inside a list) of one
\* insertion after another: every non-blank record is stored under its id,
\* nothing else is, and every trigram lists exactly the ids of the records
\* that have it, each once.
C6_SameAsSequential ==
    (phase = "built" /\ DistinctIds) =>
        /\ DOMAIN storage = {added[n].id : n \in Kept}
        /\ \A n \in Kept : storage[added[n].id] = Prepare(added[n].text)
        /\ DOMAIN index = UNION {TrigramSet(added[n].text) : n \in Kept}
        /\ \A t \in DOMAIN index :
               /\ {index[t][p] : p \in 1..Len(index[t])}
                     = {added[n].id : n \in {m \in Kept : t \in TrigramSet(added[m].text)}}
               /\ Len(index[t])
                     = Cardinality({m \in Kept : t \in TrigramSet(added[m].text)})

\* two records of one batch share a trigram, and the second record's push
\* came first
C6_Witness ==
    /\ phase = "built"
    /\ DistinctIds
    /\ Len(added) = 2
    /\ \E t \in DOMAIN index :
           /\ Len(index[t]) = 2
           /\ index[t][1] = added[2].id
           /\ index[t][2] = added[1].id

\* C7 as stated: in every state of the builder and of the Indexer, no
\* posting list holds an id twice.
C7_NoIdTwice ==
    \A t \in DOMAIN index :
        \A p, r \in 1..Len(index[t]) : p /= r => index[t][p] /= index[t][r]

\* the two searches with neither the length pre-filter nor the
\* short-circuit: levenshtein_distance_raw on every candidate that meets
\* min_matches
FullEngine(candidates, token_count, q_chars, max_distance) ==
    LET need == min_matches(token_count, min_trigram_match_ratio)
        Dist(id) == levenshtein_distance_raw(q_chars, storage[id].normalized_vec,
                                             max_distance, <<>>).ret
    IN  {[id |-> id, distance |-> Dist(id)] :
            id \in {x \in DOMAIN candidates :
                       /\ candidates[x] >= need
                       /\ x \in DOMAIN storage
                       /\ Dist(x) <= max_distance}}

FullSearch ==
    IF query.mode = "search"
    THEN LET toks == dedup(sort_unstable(tokenize(query.text)))
         IN  IF toks = <<>> THEN {}
             ELSE FullEngine(Candidates(toks, 0, FALSE), Len(toks),
                             normalize(query.text, <<>>, <<>>, <<>>).sorted_buf, query.max_distance)
    ELSE IF query.id \notin DOMAIN storage \/ storage[query.id].trigrams = <<>>
         THEN {}
         ELSE FullEngine(Candidates(storage[query.id].trigrams, query.id, TRUE),
                         Len(storage[query.id].trigrams),
                         storage[query.id].normalized_vec, query.max_distance)

\* C8: search and search_by_id return the (id, distance) pairs of the
\* variant that runs the distance engine on every candidate meeting
\* min_matches, each pair as often as the variant has it (once).
C8_FiltersChangeNothing ==
    query.mode /= "none" =>
        /\ {results[n] : n \in 1..Len(results)} = FullSearch
        /\ Len(results) = Cardinality(FullSearch)

\* one candidate taken by the short-circuit (same normalized text, other
\* raw text) and one dropped by the length pre-filter
C8_Witness ==
    /\ query.mode = "search"
    /\ \E n \in 1..Len(results) :
           /\ results[n].distance = 0
           /\ storage[results[n].id].original /= query.text
    /\ \E id \in DOMAIN storage \ ResultIds :
           /\ TrigramSet(storage[id].original) \cap TrigramSet(query.text) /= {}
           /\ abs_diff(storage[id].normalized_len, Len(Normalized(query.text)))
                 > query.max_distance

\* C10: the list either search returns is in non-decreasing order of
\* distance and holds no distance above k.
C10_SortedWithinBound ==
    query.mode /= "none" =>
        /\ \A n \in 1..(Len(results) - 1) : results[n].distance <= results[n + 1].distance
        /\ \A n \in 1..Len(results) : results[n].distance <= query.max_distance

\* two results at different distances
C10_Witness ==
    /\ query.mode /= "none"
    /\ Len(results) = 2
    /\ results[1].distance < results[2].distance

\* exactly one of the two arguments of the returned call is empty
OneEmpty == (Len(lev_a) = 0) /= (Len(lev_b) = 0)
\* the length of the longer argument
OtherLen == Max(Len(lev_a), Len(lev_b))

\* C9 as stated: with exactly one sequence empty and the other of length
\* L > k, the call returns the raw length L.
C9_RawLength ==
    (lev_pc = "returned" /\ OneEmpty /\ OtherLen > lev_k) => lev_ret = OtherLen

\* C9 amended: with exactly one sequence empty and the other of length L,
\* the call returns the sentinel k + 1 when L > k (the length-difference
\* test comes first) and L when L <= k: the empty-sequence return is only
\* reached with L <= k.
C9_EmptyCapped ==
    (lev_pc = "returned" /\ OneEmpty) =>
        lev_ret = (IF OtherLen > lev_k THEN lev_k + 1 ELSE OtherLen)

\* an empty sequence against one two longer than the bound
C9_Witness ==
    /\ lev_pc = "returned"
    /\ lev_a = <<>>
    /\ Len(lev_b) = 3
    /\ lev_k = 1
    /\ lev_ret = 2

\* C13 as stated: every value a call writes to the row buffer, at
\* initialization, at the band edge and at a cell update, lies in [0, k + 1].
C13_CappedThroughout ==
    lev_pc = "returned" =>
        /\ lev_peak.edge \in 0..(lev_k + 1)
        /\ lev_peak.cell \in 0..(lev_k + 1)

\* C13 amended: the values written at initialization and at the band edge
\* lie in [0, k + 1]; a cell update is not capped, it is at most one above
\* the cell to its left in a band of at most 2k + 1 columns, so it lies in
\* [0, 3k + 2] and can exceed k + 1; the value returned is in [0, k + 1].
C13_EdgesCapped ==
    lev_pc = "returned" =>
        /\ lev_peak.edge \in 0..(lev_k + 1)
        /\ lev_peak.cell \in 0..(3 * lev_k + 2)
        /\ lev_ret \in 0..(lev_k + 1)

\* a call whose rows wrote k + 1 at the band edge and more than k + 1 in a cell
C13_Witness ==
    /\ lev_pc = "returned"
    /\ lev_peak.edge = lev_k + 1
    /\ lev_peak.cell > lev_k + 1

\* ---------------------------------------------------- properties of normalize
\* the characters normalize keeps (alphanumeric or whitespace), lowercased
Letters(s) ==
    LET kept == SelectSeq(s, LAMBDA c : is_alphanumeric(c) \/ is_whitespace(c))
    IN  [n \in 1..Len(kept) |-> IF kept[n] \in 65..90 THEN kept[n] + 32 ELSE kept[n]]

\* the words of t: <<i, j>> for every maximal stretch t[i..j] without whitespace
WordSpans(t) ==
    {<<i, j>> \in (1..Len(t)) \X (1..Len(t)) :
        /\ i <= j
        /\ \A n \in i..j : ~is_whitespace(t[n])
        /\ i = 1 \/ is_whitespace(t[i - 1])
        /\ j = Len(t) \/ is_whitespace(t[j + 1])}

\* the multiset of the words of t: word -> number of occurrences
WordBag(t) ==
    LET spans == WordSpans(t)
    IN  [w \in {SubSeq(t, p[1], p[2]) : p \in spans} |->
            Cardinality({p \in spans : SubSeq(t, p[1], p[2]) = w})]

\* the words of t in order of position
WordSeq(t) ==
    LET spans == WordSpans(t)
    IN  [n \in 1..Cardinality(spans) |->
            LET p == CHOOSE q \in spans :
                         Cardinality({x \in spans : x[1] < q[1]}) = n - 1
            IN  SubSeq(t, p[1], p[2])]

\* r is the canonical text of the word multiset bag: its words are those of
\* bag, in lexicographic order, joined by single spaces, with no leading or
\* trailing space
IsCanonical(r, bag) ==
    /\ WordBag(r) = bag
    /\ \A n \in 1..Len(r) : is_whitespace(r[n]) => r[n] = 32
    /\ \A n \in 1..(Len(r) - 1) : ~(r[n] = 32 /\ r[n + 1] = 32)
    /\ r /= <<>> => r[1] /= 32 /\ r[Len(r)] /= 32
    /\ LET words == WordSeq(r)
       IN  \A n \in 1..(Len(words) - 1) : ~LexLess(words[n + 1], words[n])

\* C11: normalize leaves in sorted_buf the canonical text of the word
\* multiset of its input (words in lexicographic order, single spaces, no
\* leading or trailing space), whatever the buffers held before the call, and
\* two successive calls on inputs with equal word multisets leave the same
\* sorted_buf.
C11_Canonical ==
    norm_pc = "returned" =>
        LET bag == WordBag(Letters(norm_s))
        IN  /\ IsCanonical(sorted_buf, bag)
            /\ (norm_prev.called /\ WordBag(Letters(norm_prev.s)) = bag)
                   => sorted_buf = norm_prev.sorted_buf

\* two successive calls on used buffers: the same two distinct words in the
\* opposite order, with different case or punctuation
C11_Witness ==
    /\ norm_pc = "returned"
    /\ norm_prev.called
    /\ WordBag(Letters(norm_prev.s)) = WordBag(Letters(norm_s))
    /\ Len(WordSeq(Letters(norm_s))) = 2
    /\ WordSeq(Letters(norm_s))[1] /= WordSeq(Letters(norm_s))[2]
    /\ WordSeq(Letters(norm_s))[1] = WordSeq(Letters(norm_prev.s))[2]
    /\ Len(norm_s) /= Len(norm_prev.s)

\* ----------------------------------------------------- properties of tokenize
\* the text with every uppercase letter replaced by its lowercase letter
Lowered(text) ==
    [n \in 1..Len(text) |-> IF text[n] \in 65..90 THEN text[n] + 32 ELSE text[n]]

\* the maximal runs of alphanumeric characters of t: <<i, j>> for t[i..j]
Runs(t) ==
    {<<i, j>> \in (1..Len(t)) \X (1..Len(t)) :
        /\ i <= j
        /\ \A n \in i..j : is_alphanumeric(t[n])
        /\ i = 1 \/ ~is_alphanumeric(t[i - 1])
        /\ j = Len(t) \/ ~is_alphanumeric(t[j + 1])}

\* the positions where a 3-character window inside a run starts
WindowStarts(t) ==
    UNION {p[1]..(p[2] - 2) : p \in Runs(t)}

\* the windows in order of position
Windows(t) ==
    LET starts == WindowStarts(t)
    IN  [n \in 1..Cardinality(starts) |->
            LET i == CHOOSE q \in starts :
                         Cardinality({x \in starts : x < q}) = n - 1
            IN  SubSeq(t, i, i + 2)]

\* C12: tokenize returns, in order of position and with repetitions, exactly
\* the 3-character windows inside the maximal alphanumeric runs of the
\* lowercased text: n - 2 windows for every run of length n >= 3, none for a
\* shorter run, none across two runs.
C12_RunWindows ==
    tok_pc = "returned" =>
        LET t == Lowered(tok_text)
        IN  /\ tok_ret = Windows(t)
            /\ Len(tok_ret) =
                   Cardinality({<<p, i>> \in Runs(t) \X (1..Len(t)) :
                                   i \in p[1]..(p[2] - 2)})

\* a text with an uppercase letter and two runs, one of length 4 or more and
\* one of length 3 or more, whose trigrams include a repetition
C12_Witness ==
    /\ tok_pc = "returned"
    /\ \E n \in 1..Len(tok_text) : tok_text[n] \in 65..90
    /\ \E p, q \in Runs(Lowered(tok_text)) :
           /\ p /= q
           /\ p[2] - p[1] >= 3
           /\ q[2] - q[1] >= 2
    /\ \E m, n \in 1..Len(tok_ret) : m /= n /\ tok_ret[m] = tok_ret[n]
====
